---- MODULE Spec2Model ----
(***************************************************************************)
(* Model of statistics.py: SmartCampusExperimentStatistics.                *)
(* parse_all / parse_dir / parse_file drive extract_parameters and         *)
(* extract_stats_from_results over JSON result files, accumulating into    *)
(* the single self.stats object.  The code is Python 2 (basestring, print  *)
(* statement), so dict.items() is a list copy and deleting during the      *)
(* null-clearing loop is legal.                                            *)
(***************************************************************************)
EXTENDS Integers, Sequences, FiniteSets, TLC

(***************************************************************************)
(* Bounds of the model.                                                    *)
(***************************************************************************)
\* largest number of directory entries (or explicit files) in one run
MaxEntries == 3
\* largest number of directories given with --dirs
MaxDirs == 2

(***************************************************************************)
(* JSON / Python values.  Every value is a record of one shape so that     *)
(* values of different Python types can be compared.  A Python string is   *)
(* a sequence of tokens; the token "/" is the character '/', the token     *)
(* ".progress" is the text '.progress'.                                    *)
(***************************************************************************)
None == [t |-> "null", s |-> <<>>, n |-> 0, l |-> <<>>]

PyStr(toks) == [t |-> "str", s |-> toks, n |-> 0, l |-> <<>>]

PyInt(i) == [t |-> "int", s |-> <<>>, n |-> i, l |-> <<>>]

\* a float, kept in hundredths (0.25 is PyFloat(25))
PyFloat(h) == [t |-> "float", s |-> <<>>, n |-> h, l |-> <<>>]

PyList(elems) == [t |-> "list", s |-> <<>>, n |-> 0, l |-> elems]

\* isinstance(v, basestring)
IsBasestring(v) == v.t = "str"

\* Python truthiness, as used by `not exp_params.get(...)`
Truthy(v) ==
    CASE v.t = "null" -> FALSE
      [] v.t = "str" -> v.s # <<>>
      [] v.t = "int" -> v.n # 0
      [] v.t = "float" -> v.n # 0
      [] v.t = "list" -> v.l # <<>>
      [] OTHER -> TRUE

(***************************************************************************)
(* Python dicts are functions whose domain is the set of keys present.     *)
(***************************************************************************)
EmptyDict == [k \in {} |-> None]

\* d[k] = v
DictSet(d, k, v) == [x \in (DOMAIN d) \cup {k} |-> IF x = k THEN v ELSE d[x]]

\* del d[k]  (the caller has checked that k is a key)
DictDel(d, k) == [x \in (DOMAIN d) \ {k} |-> d[x]]

\* d.get(k, default)
DictGet(d, k, default) == IF k \in DOMAIN d THEN d[k] ELSE default

(***************************************************************************)
(* Exceptions.  An operation returns a record whose err field is "none"    *)
(* when it returned normally and the name of the exception otherwise.      *)
(***************************************************************************)
Errors == {"KeyError", "TypeError", "ValueError", "IndexError", "AttributeError",
           "AssertionError", "IOError", "NotImplementedError", "SystemExit"}

Raise(e) == [err |-> e, params |-> EmptyDict]

Return(p) == [err |-> "none", params |-> p]

(***************************************************************************)
(* str.split('/') on a token sequence: the list of the pieces between      *)
(* '/' tokens ("".split('/') is ['']).                                     *)
(***************************************************************************)
RECURSIVE Split(_)
Split(s) ==
    IF s = <<>> THEN << <<>> >>
    ELSE IF Head(s) = "/" THEN << <<>> >> \o Split(Tail(s))
    ELSE LET r == Split(Tail(s))
         IN  << <<Head(s)>> \o Head(r) >> \o Tail(r)

\* the texts float() accepts, with their value in hundredths
NumericTexts == { <<"0">>, <<"0.25">>, <<"0.5">>, <<"1">> }

\* float(text) succeeds
FloatParses(text) == text \in NumericTexts

\* float(text) in hundredths
FloatOf(text) ==
    CASE text = <<"0">> -> 0
      [] text = <<"0.25">> -> 25
      [] text = <<"0.5">> -> 50
      [] text = <<"1">> -> 100
      [] OTHER -> 0

\* the test, were it `experiment_type != 'networkx'`
IsMininet_NotNetworkx(experiment_type) ==
    experiment_type.t = "str" /\ experiment_type.s # <<"networkx">>

\* the test `experiment_type == 'mininet'`
IsMininet(experiment_type) ==
    experiment_type.t = "str" /\ experiment_type.s = <<"mininet">>

\* the test `experiment_type == 'networkx'`
IsNetworkx(experiment_type) ==
    experiment_type.t = "str" /\ experiment_type.s = <<"networkx">>

\* `if experiment_type is None: experiment_type = self.experiment_type`
EffectiveType(arg, self_type) == IF arg = None THEN self_type ELSE arg

\* the loop, were it to delete nothing
ClearNulls_Keep(d) == d

\* the loop deleting every key whose value is None
ClearNulls(d) == [k \in {x \in DOMAIN d : d[x] # None} |-> d[k]]

\* the mininet branch of extract_parameters
MininetParams(p) ==
    IF "tree_choosing_heuristic" \notin DOMAIN p THEN Raise("KeyError")
    ELSE
    LET p1 == DictSet(DictDel(p, "tree_choosing_heuristic"), "select_policy",
                      p["tree_choosing_heuristic"])
    IN  IF Truthy(DictGet(p1, "n_traffic_generators", None)) THEN Return(p1)
        ELSE IF "n_traffic_generators" \notin DOMAIN p1 THEN Raise("KeyError")
        ELSE IF "traffic_generator_bandwidth" \notin DOMAIN p1 THEN Raise("KeyError")
        ELSE Return(DictDel(DictDel(p1, "n_traffic_generators"),
                            "traffic_generator_bandwidth"))

\* the if / elif / else, were its else branch to log the error without exit(1)
DispatchType_NoExit(experiment_type, p) ==
    IF IsMininet(experiment_type) THEN MininetParams(p)
    ELSE IF IsNetworkx(experiment_type) THEN Raise("NotImplementedError")
    ELSE Return(p)

\* the if / elif / else on the experiment type that ends extract_parameters
DispatchType(experiment_type, p) ==
    IF IsMininet(experiment_type) THEN MininetParams(p)
    ELSE IF IsNetworkx(experiment_type) THEN Raise("NotImplementedError")
    ELSE Raise("SystemExit")

\* the topo rewrite: exp_params['topo'] = exp_params['topo'][1], then the assert
NormalizeTopo(p) ==
    IF "topo" \notin DOMAIN p THEN Raise("KeyError")
    ELSE IF IsBasestring(p["topo"]) THEN Return(p)
    ELSE IF p["topo"].t # "list" THEN Raise("TypeError")
    ELSE IF Len(p["topo"].l) < 2 THEN Raise("IndexError")
    ELSE IF ~IsBasestring(p["topo"].l[2]) THEN Raise("AssertionError")
    ELSE Return(DictSet(p, "topo", p["topo"].l[2]))

\* exp_params['fprob'] = float(exp_params.pop('failure_model').split('/')[1])
DeriveFprob(p) ==
    IF "failure_model" \notin DOMAIN p THEN Raise("KeyError")
    ELSE IF p["failure_model"].t # "str" THEN Raise("AttributeError")
    ELSE LET parts == Split(p["failure_model"].s)
         IN  IF Len(parts) < 2 THEN Raise("IndexError")
             ELSE IF ~FloatParses(parts[2]) THEN Raise("ValueError")
             ELSE Return(DictSet(DictDel(p, "failure_model"), "fprob",
                                 PyFloat(FloatOf(parts[2]))))

\* the two renames common to every experiment type
RenameCommon(p) ==
    IF "heuristic" \notin DOMAIN p THEN Raise("KeyError")
    ELSE LET p1 == DictSet(DictDel(p, "heuristic"), "const_alg", p["heuristic"])
         IN  IF "experiment_type" \notin DOMAIN p1 THEN Raise("KeyError")
             ELSE Return(DictSet(DictDel(p1, "experiment_type"), "exp_type",
                                 p1["experiment_type"]))

\* extract_parameters(exp_params, experiment_type) of an object whose
\* self.experiment_type is self_type
extract_parameters(exp_params, experiment_type, self_type) ==
    LET r1 == RenameCommon(exp_params)
        r2 == IF r1.err # "none" THEN r1 ELSE DeriveFprob(r1.params)
        r3 == IF r2.err # "none" THEN r2 ELSE NormalizeTopo(r2.params)
    IN  IF r3.err # "none" THEN r3
        ELSE DispatchType(EffectiveType(experiment_type, self_type),
                          ClearNulls(r3.params))

(***************************************************************************)
(* Paths are strings (token sequences, "/" the separator).                 *)
(***************************************************************************)
\* s.endswith(suffix)
EndsWith(s, suffix) ==
    /\ Len(s) >= Len(suffix)
    /\ SubSeq(s, Len(s) - Len(suffix) + 1, Len(s)) = suffix

\* os.path.join(a, b)
PathJoin(a, b) ==
    IF b # <<>> /\ Head(b) = "/" THEN b
    ELSE IF a = <<>> \/ a[Len(a)] = "/" THEN a \o b
    ELSE a \o <<"/">> \o b

\* os.path.dirname(p): what precedes the last "/" ("" when there is none)
RECURSIVE PathDirname(_)
PathDirname(p) ==
    IF p = <<>> THEN <<>>
    ELSE IF p[Len(p)] = "/" THEN (IF Len(p) = 1 THEN p ELSE SubSeq(p, 1, Len(p) - 1))
    ELSE PathDirname(SubSeq(p, 1, Len(p) - 1))

(***************************************************************************)
(* The contents of the file system.  A document is what a file holds:      *)
(* json says whether json.load accepts it, has_params / has_results        *)
(* whether the decoded object has the key.                                 *)
(***************************************************************************)
Run(out) == [k \in {"run", "outputs_dir"} |-> IF k = "run" THEN PyInt(0) ELSE PyStr(out)]

RunWithoutDir == [k \in {"run"} |-> PyInt(0)]

Doc(p, r) == [json |-> TRUE, has_params |-> TRUE, has_results |-> TRUE,
              params |-> p, results |-> r]

NotJson == [json |-> FALSE, has_params |-> FALSE, has_results |-> FALSE,
            params |-> EmptyDict, results |-> <<>>]

NoParamsDoc == [json |-> TRUE, has_params |-> FALSE, has_results |-> TRUE,
                params |-> EmptyDict, results |-> <<Run(<<"out1">>)>>]

\* a raw parameter mapping from its seven entries; an entry of Absent is no key
Absent == [t |-> "absent", s |-> <<>>, n |-> 0, l |-> <<>>]

ParamKeys == {"heuristic", "experiment_type", "failure_model", "topo",
              "tree_choosing_heuristic", "n_traffic_generators",
              "traffic_generator_bandwidth", "seed"}

Params(h, et, fm, topo, tch, ntg, tgb, seed) ==
    LET all == [k \in ParamKeys |->
                  CASE k = "heuristic" -> h
                    [] k = "experiment_type" -> et
                    [] k = "failure_model" -> fm
                    [] k = "topo" -> topo
                    [] k = "tree_choosing_heuristic" -> tch
                    [] k = "n_traffic_generators" -> ntg
                    [] k = "traffic_generator_bandwidth" -> tgb
                    [] OTHER -> seed]
    IN  [k \in {x \in ParamKeys : all[x] # Absent} |-> all[k]]

Steiner == PyStr(<<"steiner">>)
Mininet == PyStr(<<"mininet">>)
Networkx == PyStr(<<"networkx">>)
Quantum == PyStr(<<"quantum">>)
Uniform25 == PyStr(<<"uniform", "/", "0.25">>)
TopoPair == PyList(<<PyStr(<<"reader">>), PyStr(<<"campus.json">>)>>)
TopoName == PyStr(<<"campus.json">>)
MaxReachable == PyStr(<<"max-reachable">>)
Bandwidth == PyStr(<<"10">>)

\* a mininet parameter mapping that normalizes, with traffic generators
ParamsA == Params(Steiner, Mininet, Uniform25, TopoPair, MaxReachable,
                  PyInt(2), Bandwidth, None)

\* a mininet parameter mapping that normalizes, n_traffic_generators = 0
ParamsB == Params(PyStr(<<"red-blue">>), Mininet, PyStr(<<"uniform", "/", "0.5">>),
                  TopoName, MaxReachable, PyInt(0), Bandwidth, Absent)

\* what a file can hold
Contents == {
    Doc(ParamsA, <<Run(<<"out1">>), Run(<<"out2">>)>>),
    Doc(ParamsB, <<Run(<<"out3">>)>>),
    NotJson,
    NoParamsDoc,
    [Doc(ParamsA, <<>>) EXCEPT !.has_results = FALSE],
    Doc(Params(Steiner, Networkx, Uniform25, TopoName, Absent, Absent, Absent, None),
        <<Run(<<"out5">>)>>),
    Doc(Params(Steiner, Absent, Uniform25, TopoName, Absent, Absent, Absent, Absent),
        <<Run(<<"out6">>)>>),
    Doc(Params(Steiner, Quantum, Uniform25, TopoPair, MaxReachable, PyInt(2),
               Bandwidth, Absent), <<Run(<<"out7">>)>>),
    Doc(Params(Steiner, Mininet, PyStr(<<"uniform">>), TopoName, MaxReachable,
               PyInt(2), Bandwidth, Absent), <<Run(<<"out8">>)>>),
    Doc(Params(Steiner, Mininet, PyStr(<<"uniform", "/", "abc">>), TopoName,
               MaxReachable, PyInt(2), Bandwidth, Absent), <<Run(<<"out9">>)>>),
    Doc(Params(Steiner, Mininet, Uniform25, PyList(<<PyStr(<<"reader">>), PyInt(5)>>),
               MaxReachable, PyInt(2), Bandwidth, Absent), <<Run(<<"out10">>)>>),
    Doc(Params(Steiner, Mininet, Uniform25, TopoPair, MaxReachable, PyInt(0),
               Absent, Absent), <<Run(<<"out11">>)>>),
    Doc(ParamsB, <<RunWithoutDir>>) }

\* what os.listdir can yield: a name and what os.path.isfile says of it
DirEntries == {
    [name |-> <<"r", ".json">>, kind |-> "file"],
    [name |-> <<"partial", ".progress">>, kind |-> "file"],
    [name |-> <<"x", ".progress", ".bak">>, kind |-> "file"],
    [name |-> <<"sub">>, kind |-> "dir"] }

\* the paths --files can name
FilePaths == { <<"r", ".json">>, <<"partial", ".progress">>, <<"sub">> }

\* what open(fname) and f.read() find at a path
Entry(name, kind, content) == [name |-> name, kind |-> kind, content |-> content]

(***************************************************************************)
(* The state of one run of the program.                                    *)
(***************************************************************************)
VARIABLES
    parsing_dirs,     \* self.parsing_dirs
    dirs,             \* self.dirs, each with its listing once os.listdir returned it
    files,            \* self.files
    di,               \* parse_all: index in self.dirs of the directory being parsed
    ei,               \* index of the next entry of the listing (of self.files)
    status,           \* "running", "done" (parse_all returned), "aborted" (it raised)
    error,            \* the exception that left parse_all, "none" if none
    experiment_type,  \* self.experiment_type
    stats,            \* self.stats
    nConstructed,     \* number of MininetSeismicStatistics objects constructed
    log,              \* one record per call of parse_file, in order
    np_in,            \* extract_parameters called on its own: its exp_params
    np_type,          \* ... its experiment_type argument
    np_out            \* ... its outcome

vars == <<parsing_dirs, dirs, files, di, ei, status, error, experiment_type, stats,
          nConstructed, log, np_in, np_type, np_out>>

\* self.stats = None
NoStats == [id |-> 0, calls |-> <<>>]

NotCalled == [called |-> FALSE, err |-> "none", params |-> EmptyDict]

(***************************************************************************)
(* extract_stats_from_results(results, filename, experiment_type,          *)
(* **exp_params) on an object whose fields are self_type, self_stats; n is *)
(* the number of aggregate objects constructed so far.  The aggregate      *)
(* records the calls made on it: its constructor followed by parse_all     *)
(* ("construct"), or parse_all(dirs_to_parse) on the existing object       *)
(* ("merge").                                                              *)
(***************************************************************************)
StatsCall(op, dirs_to_parse, exp_params) ==
    [op |-> op, dirs |-> dirs_to_parse, params |-> exp_params]

\* the same, were a new object constructed for every file
MergeStats_AlwaysConstruct(self_stats, n, dirs_to_parse, exp_params) ==
    [stats |-> [id |-> n + 1,
                calls |-> <<StatsCall("construct", dirs_to_parse, exp_params)>>],
     nConstructed |-> n + 1]

\* `if self.stats is None: ... else: ...`, and `stats = self.stats`
MergeStats(self_stats, n, dirs_to_parse, exp_params) ==
    IF self_stats = NoStats
    THEN [stats |-> [id |-> n + 1,
                     calls |-> <<StatsCall("construct", dirs_to_parse, exp_params)>>],
          nConstructed |-> n + 1]
    ELSE [stats |-> [self_stats EXCEPT
                       !.calls = Append(@, StatsCall("merge", dirs_to_parse, exp_params))],
          nConstructed |-> n]

StatsRaise(e, self_stats, n) ==
    [err |-> e, stats |-> self_stats, nConstructed |-> n, ret |-> 0]

extract_stats_from_results(results, filename, type_arg, exp_params, self_type, self_stats, n) ==
    IF IsMininet(EffectiveType(type_arg, self_type))
    THEN IF \E i \in 1..Len(results) : "outputs_dir" \notin DOMAIN results[i]
         THEN StatsRaise("KeyError", self_stats, n)
         ELSE LET this_path == PathDirname(filename)
                  dirs_to_parse == [i \in 1..Len(results) |->
                                      PathJoin(this_path, results[i]["outputs_dir"].s)]
                  m == MergeStats(self_stats, n, dirs_to_parse, exp_params)
              IN  [err |-> "none", stats |-> m.stats,
                   nConstructed |-> m.nConstructed, ret |-> m.stats.id]
    ELSE IF IsNetworkx(EffectiveType(type_arg, self_type))
    THEN StatsRaise("NotImplementedError", self_stats, n)
    ELSE StatsRaise("SystemExit", self_stats, n)

(***************************************************************************)
(* parse_file(fname).                                                      *)
(***************************************************************************)
\* the try statement, were there no except clause
Caught_Nothing(stage, e) == FALSE

\* the try statement, were it around the whole body of parse_file
Caught_AnyValueError(stage, e) == e = "ValueError"

\* the try / except ValueError around json.load: the exception e raised
\* at the given stage of parse_file is caught, and the file skipped
Caught(stage, e) == stage = "json.load" /\ e = "ValueError"

\* data['params'].get('experiment_type', 'networkx')
FileType(params) == DictGet(params, "experiment_type", PyStr(<<"networkx">>))

\* the outcome of parse_file: the fields of self it leaves, the exception
\* that left it ("none": it returned), how far it went, the id of the object
\* it returned (0: it returned None)
Outcome(t, st, n, e, decoded, normalized, extracted, ret) ==
    [experiment_type |-> t, stats |-> st, nConstructed |-> n,
     err |-> e, decoded |-> decoded, normalized |-> normalized,
     extracted |-> extracted, ret |-> ret]

\* an exception at a stage: swallowed by the except clause, or leaving
Except(stage, e, t, st, n, decoded, normalized, extracted) ==
    Outcome(t, st, n, IF Caught(stage, e) THEN "none" ELSE e,
            decoded, normalized, extracted, 0)

parse_file(fname, entry, self_type, self_stats, n) ==
    LET doc == entry.content IN
    IF entry.kind # "file"
    THEN Except("open", "IOError", self_type, self_stats, n, FALSE, FALSE, FALSE)
    ELSE IF ~doc.json
    THEN Except("json.load", "ValueError", self_type, self_stats, n, FALSE, FALSE, FALSE)
    ELSE IF ~doc.has_params \/ ~doc.has_results
    THEN Except("data", "KeyError", self_type, self_stats, n, TRUE, FALSE, FALSE)
    ELSE
    LET t == FileType(doc.params)
        p == extract_parameters(doc.params, None, t)
    IN  IF p.err # "none"
        THEN Except("extract_parameters", p.err, t, self_stats, n, TRUE, TRUE, FALSE)
        ELSE
        LET r == extract_stats_from_results(doc.results, fname, None, p.params,
                                            t, self_stats, n)
        IN  IF r.err # "none"
            THEN Except("extract_stats_from_results", r.err, t, r.stats,
                        r.nConstructed, TRUE, TRUE, TRUE)
            ELSE Outcome(t, r.stats, r.nConstructed, "none", TRUE, TRUE, TRUE, r.ret)

(***************************************************************************)
(* parse_dir and parse_all.                                                *)
(***************************************************************************)
\* os.path.isfile(filename)
IsFile(entry) == entry.kind = "file"

\* the test, were it without `or not os.path.isfile(filename)`
SkipEntry_SuffixOnly(filename, entry) == EndsWith(filename, <<".progress">>)

\* the test of parse_dir that makes it `continue`
SkipEntry(filename, entry) ==
    EndsWith(filename, <<".progress">>) \/ ~IsFile(entry)

\* what one call of parse_file leaves in the state; where is <<d, e>>
CallParseFile(fname, entry, where) ==
    LET o == parse_file(fname, entry, experiment_type, stats, nConstructed)
    IN  /\ experiment_type' = o.experiment_type
        /\ stats' = o.stats
        /\ nConstructed' = o.nConstructed
        /\ log' = Append(log, [d |-> where[1], e |-> where[2], kind |-> entry.kind,
                               content |-> entry.content, err |-> o.err,
                               decoded |-> o.decoded, normalized |-> o.normalized,
                               extracted |-> o.extracted, ret |-> o.ret])
        /\ error' = o.err
        /\ status' = IF o.err = "none" THEN "running" ELSE "aborted"
        /\ ei' = IF o.err = "none" THEN ei + 1 ELSE ei

\* the number of entries listed so far
RECURSIVE Listed(_, _)
Listed(ds, j) == IF j = 0 THEN 0 ELSE Len(ds[j].entries) + Listed(ds, j - 1)

DistinctNames(es) == \A i, j \in 1..Len(es) : es[i].name = es[j].name => i = j

\* the listings os.listdir can return, of at most n entries
ListingsUpTo(n) ==
    {es \in UNION {[1..m -> DirEntries] : m \in 0..n} : DistinctNames(es)}

InDir == /\ status = "running" /\ parsing_dirs /\ di <= Len(dirs)
         /\ dirs[di].listed
         /\ ei <= Len(dirs[di].entries)

\* parse_dir is entered: os.listdir(dirname)
ParseDirList ==
    /\ status = "running" /\ parsing_dirs /\ di <= Len(dirs)
    /\ ~dirs[di].listed
    /\ \E es \in ListingsUpTo(MaxEntries - Listed(dirs, Len(dirs))) :
         dirs' = [dirs EXCEPT ![di] = [@ EXCEPT !.listed = TRUE, !.entries = es]]
    /\ UNCHANGED <<parsing_dirs, files, di, ei, status, error, experiment_type,
                   stats, nConstructed, log, np_in, np_type, np_out>>

\* parse_dir, one iteration of its loop: the entry is skipped
ParseDirSkip ==
    /\ InDir
    /\ SkipEntry(PathJoin(dirs[di].path, dirs[di].entries[ei].name), dirs[di].entries[ei])
    /\ ei' = ei + 1
    /\ UNCHANGED <<parsing_dirs, dirs, files, di, status, error, experiment_type,
                   stats, nConstructed, log, np_in, np_type, np_out>>

\* parse_dir, one iteration of its loop: the entry goes to parse_file, which
\* reads its content
ParseDirFile ==
    /\ InDir
    /\ ~SkipEntry(PathJoin(dirs[di].path, dirs[di].entries[ei].name), dirs[di].entries[ei])
    /\ \E content \in Contents :
         CallParseFile(PathJoin(dirs[di].path, dirs[di].entries[ei].name),
                       Entry(dirs[di].entries[ei].name, dirs[di].entries[ei].kind, content),
                       <<di, ei>>)
    /\ UNCHANGED <<parsing_dirs, dirs, files, di, np_in, np_type, np_out>>

\* parse_dir returns; parse_all goes to the next directory
ParseDirReturn ==
    /\ status = "running" /\ parsing_dirs /\ di <= Len(dirs)
    /\ dirs[di].listed
    /\ ei > Len(dirs[di].entries)
    /\ di' = di + 1
    /\ ei' = 1
    /\ UNCHANGED <<parsing_dirs, dirs, files, status, error, experiment_type,
                   stats, nConstructed, log, np_in, np_type, np_out>>

\* parse_all, one iteration of its loop over self.files; the path names a
\* file with some content, or a directory
ParseFilesStep ==
    /\ status = "running" /\ ~parsing_dirs /\ ei <= Len(files)
    /\ \E en \in {Entry(files[ei], "file", c) : c \in Contents}
                    \cup {Entry(files[ei], "dir", NotJson)} :
         CallParseFile(files[ei], en, <<0, ei>>)
    /\ UNCHANGED <<parsing_dirs, dirs, files, di, np_in, np_type, np_out>>

\* parse_all returns
ParseAllReturn ==
    /\ status = "running"
    /\ IF parsing_dirs THEN di > Len(dirs) ELSE ei > Len(files)
    /\ status' = "done"
    /\ UNCHANGED <<parsing_dirs, dirs, files, di, ei, error, experiment_type,
                   stats, nConstructed, log, np_in, np_type, np_out>>

(***************************************************************************)
(* The runs: --dirs with up to MaxDirs directories holding at most         *)
(* MaxEntries entries in all, or --files with up to MaxEntries paths.      *)
(***************************************************************************)
DirPaths == <<  <<"d1">>, <<"d2">>, <<"d3">>, <<"d4">>  >>

Init ==
    /\ parsing_dirs \in BOOLEAN
    /\ IF parsing_dirs
       THEN /\ files = <<>>
            /\ \E k \in 1..MaxDirs :
                 dirs = [j \in 1..k |-> [path |-> DirPaths[j], listed |-> FALSE,
                                         entries |-> <<>>]]
       ELSE /\ dirs = <<>>
            /\ files \in UNION {[1..m -> FilePaths] : m \in 1..MaxEntries}
    /\ di = 1
    /\ ei = 1
    /\ status = "running"
    /\ error = "none"
    /\ experiment_type = None
    /\ stats = NoStats
    /\ nConstructed = 0
    /\ log = <<>>
    /\ np_in = EmptyDict
    /\ np_type = None
    /\ np_out = NotCalled

Next ==
    \/ ParseDirList
    \/ ParseDirSkip
    \/ ParseDirFile
    \/ ParseDirReturn
    \/ ParseFilesStep
    \/ ParseAllReturn

Spec == Init /\ [][Next]_vars

(***************************************************************************)
(* extract_parameters called on its own, on every raw parameter mapping    *)
(* built from the values below, with and without an explicit               *)
(* experiment_type argument.                                               *)
(***************************************************************************)
\* the names extract_parameters writes: the targets of its renames and fprob
OutputNames == {"const_alg", "exp_type", "fprob", "select_policy"}

\* the sets of output names a raw mapping may already hold, with a null value
NullOutputNames == { {}, {"const_alg"}, {"exp_type"}, {"fprob"}, {"select_policy"},
                     OutputNames }

\* the mapping p with the keys ks added, each with the value None
WithNulls(p, ks) == [k \in (DOMAIN p) \cup ks |-> IF k \in DOMAIN p THEN p[k] ELSE None]

RawParams ==
    { WithNulls(Params(h, et, fm, topo, tch, ntg, tgb, seed), ks) :
        ks \in NullOutputNames,
        h \in {Absent, None, Steiner},
        et \in {Absent, None, Mininet, Networkx, Quantum},
        fm \in {Absent, None, Uniform25, PyStr(<<"uniform">>),
                PyStr(<<"uniform", "/", "abc">>)},
        topo \in {Absent, None, TopoName, TopoPair, PyList(<<PyStr(<<"reader">>), None>>)},
        tch \in {Absent, None, MaxReachable},
        ntg \in {Absent, None, PyInt(0), PyInt(2)},
        tgb \in {Absent, None, Bandwidth},
        seed \in {None, PyInt(7)} }

\* <<experiment_type argument, self.experiment_type>>
TypeArgs == { <<None, None>>, <<None, Mininet>>, <<None, Networkx>>, <<None, Quantum>>,
              <<Mininet, None>>, <<Mininet, Networkx>>, <<Networkx, Mininet>>,
              <<Quantum, Mininet>> }

InitParams ==
    /\ np_in \in RawParams
    /\ \E ta \in TypeArgs : np_type = ta[1] /\ experiment_type = ta[2]
    /\ np_out = NotCalled
    /\ parsing_dirs = FALSE
    /\ dirs = <<>>
    /\ files = <<>>
    /\ di = 1
    /\ ei = 1
    /\ status = "running"
    /\ error = "none"
    /\ stats = NoStats
    /\ nConstructed = 0
    /\ log = <<>>

CallExtractParameters ==
    /\ ~np_out.called
    /\ LET r == extract_parameters(np_in, np_type, experiment_type)
       IN  np_out' = [called |-> TRUE, err |-> r.err, params |-> r.params]
    /\ UNCHANGED <<parsing_dirs, dirs, files, di, ei, status, error, experiment_type,
                   stats, nConstructed, log, np_in, np_type>>

NextParams == CallExtractParameters

SpecParams == InitParams /\ [][NextParams]_vars

(***************************************************************************)
(* Vocabulary of the properties, stated on the raw inputs.                 *)
(***************************************************************************)
\* the file a call of parse_file was made on
LogEntry(i) == [kind |-> log[i].kind, content |-> log[i].content]

LogPos(i) == <<log[i].d, log[i].e>>

\* the entries of the run known so far, as <<directory, index>> (directory
\* 0: self.files)
Positions ==
    IF parsing_dirs
    THEN UNION { {<<d, e>> : e \in 1..Len(dirs[d].entries)} : d \in 1..Len(dirs) }
    ELSE {<<0, e>> : e \in 1..Len(files)}

\* enumeration order
Before(p, q) == p[1] < q[1] \/ (p[1] = q[1] /\ p[2] < q[2])

\* a directory entry that parse_dir is to hand to parse_file
Eligible(q) ==
    LET en == dirs[q[1]].entries[q[2]]
    IN  en.kind = "file" /\ en.name[Len(en.name)] # ".progress"

\* a file that decodes to an object holding both params and results
IsDocument(c) == c.json /\ c.has_params /\ c.has_results

\* failure_model is "<name>/<number>"
GoodFailureModel(raw) ==
    /\ "failure_model" \in DOMAIN raw
    /\ raw["failure_model"].t = "str"
    /\ \E i \in 2..Len(raw["failure_model"].s) :
         /\ raw["failure_model"].s[i - 1] = "/"
         /\ \A j \in 1..(i - 2) : raw["failure_model"].s[j] # "/"
         /\ <<raw["failure_model"].s[i]>> \in NumericTexts
         /\ (i = Len(raw["failure_model"].s) \/ raw["failure_model"].s[i + 1] = "/")

\* topo is a string or a pair whose second element is a string
GoodTopo(raw) ==
    /\ "topo" \in DOMAIN raw
    /\ \/ raw["topo"].t = "str"
       \/ /\ raw["topo"].t = "list"
          /\ Len(raw["topo"].l) >= 2
          /\ raw["topo"].l[2].t = "str"

\* well formed but for the experiment type and the mininet parameters
WellFormedCommon(raw) ==
    "heuristic" \in DOMAIN raw /\ GoodFailureModel(raw) /\ GoodTopo(raw)

RawTypeIs(raw, text) ==
    "experiment_type" \in DOMAIN raw /\ raw["experiment_type"] = PyStr(<<text>>)

\* n_traffic_generators is absent, null, zero or otherwise falsy
NoTrafficGenerators(raw) ==
    \/ "n_traffic_generators" \notin DOMAIN raw
    \/ raw["n_traffic_generators"].t = "null"
    \/ raw["n_traffic_generators"] = PyInt(0)
    \/ raw["n_traffic_generators"] = PyStr(<<>>)
    \/ raw["n_traffic_generators"] = PyList(<<>>)

\* a mininet parameter mapping valid but perhaps for the traffic generator keys
ValidMininetParams(raw) ==
    /\ WellFormedCommon(raw)
    /\ "experiment_type" \in DOMAIN raw
    /\ "tree_choosing_heuristic" \in DOMAIN raw
    /\ raw["tree_choosing_heuristic"] # None

\* a result file of a mininet experiment with nothing wrong in it
ValidResultFile(c) ==
    /\ IsDocument(c)
    /\ ValidMininetParams(c.params)
    /\ RawTypeIs(c.params, "mininet")
    /\ \/ ~NoTrafficGenerators(c.params)
       \/ /\ "n_traffic_generators" \in DOMAIN c.params
          /\ c.params["n_traffic_generators"] # None
          /\ "traffic_generator_bandwidth" \in DOMAIN c.params
          /\ c.params["traffic_generator_bandwidth"] # None
    /\ \A i \in 1..Len(c.results) : "outputs_dir" \in DOMAIN c.results[i]

\* the output directories of the document read by call i of parse_file,
\* resolved against the directory of the file
ResolvedDirs(i) ==
    [r \in 1..Len(log[i].content.results) |->
        IF log[i].d = 0 THEN log[i].content.results[r]["outputs_dir"].s
        ELSE dirs[log[i].d].path \o <<"/">> \o log[i].content.results[r]["outputs_dir"].s]

\* the aggregate holds the results of the file of call i
Merged(i) == \E c \in 1..Len(stats.calls) : stats.calls[c].dirs = ResolvedDirs(i)

\* the number of calls of parse_file on the entry q
TimesParsed(q) == Cardinality({i \in 1..Len(log) : LogPos(i) = q})

\* the step is a call of parse_file
ParseFileStep == Len(log') = Len(log) + 1

\* the file of the call of parse_file that the step makes
Called == [kind |-> log'[Len(log')].kind, content |-> log'[Len(log')].content]

(***************************************************************************)
(* C1.  A file that decodes as JSON but lacks the key params or the key    *)
(* results is skipped like an undecodable file: parse_file returns         *)
(* without an exception and the run goes on.                               *)
(* Violated: data['params'] / data['results'] raise KeyError outside the   *)
(* try statement.                                                          *)
(***************************************************************************)
C1_MissingKeysSkipped ==
    \A i \in 1..Len(log) :
        LET c == LogEntry(i).content
        IN  (LogEntry(i).kind = "file" /\ c.json /\ (~c.has_params \/ ~c.has_results))
                => (log[i].err = "none" /\ status # "aborted")

(***************************************************************************)
(* C2.  Under experiment type mininet, an otherwise valid raw mapping      *)
(* whose n_traffic_generators is absent, null, zero or falsy normalizes    *)
(* without an exception to a mapping holding neither n_traffic_generators  *)
(* nor traffic_generator_bandwidth.                                        *)
(* Violated: `del` raises KeyError when either key is not in the mapping.  *)
(***************************************************************************)
C2_TrafficKeysDropped ==
    ( /\ np_out.called
      /\ IsMininet(EffectiveType(np_type, experiment_type))
      /\ ValidMininetParams(np_in)
      /\ NoTrafficGenerators(np_in) )
        => /\ np_out.err = "none"
           /\ "n_traffic_generators" \notin DOMAIN np_out.params
           /\ "traffic_generator_bandwidth" \notin DOMAIN np_out.params

(***************************************************************************)
(* C3.  At most one aggregate object is ever constructed: the first        *)
(* extraction constructs it, every later one merges into that object,      *)
(* every call of extract_stats_from_results returns that object, and,      *)
(* once present, self.stats is never replaced nor reset to None.           *)
(***************************************************************************)
C3_Inv ==
    /\ nConstructed <= 1
    /\ (stats = NoStats) <=> (nConstructed = 0)
    /\ stats # NoStats =>
         /\ stats.id = 1
         /\ stats.calls[1].op = "construct"
         /\ \A c \in 2..Len(stats.calls) : stats.calls[c].op = "merge"
    /\ \A i \in 1..Len(log) :
         (log[i].extracted /\ log[i].err = "none") => log[i].ret = stats.id
    /\ Len(stats.calls) =
         Cardinality({i \in 1..Len(log) : log[i].extracted /\ log[i].err = "none"})

C3_Step ==
    stats # NoStats =>
        /\ stats'.id = stats.id
        /\ Len(stats'.calls) >= Len(stats.calls)
        /\ SubSeq(stats'.calls, 1, Len(stats.calls)) = stats.calls

\* C3: one aggregate object at most, constructed first, merged into and
\* returned afterwards, never replaced nor reset
C3_SingleAggregate == []C3_Inv /\ [][C3_Step]_vars

C3_Witness ==
    /\ Len(stats.calls) >= 2
    /\ \E i, j \in 1..Len(log) : i # j /\ log[i].ret = 1 /\ log[j].ret = 1

(***************************************************************************)
(* C4.  In directory mode a file that is not valid JSON is skipped: no     *)
(* exception leaves parse_file, self.experiment_type and self.stats are    *)
(* as before the file, and the next entry parse_dir is to parse is still   *)
(* parsed, and merged when it is a valid result file.                      *)
(***************************************************************************)
C4_Step ==
    (ParseFileStep /\ parsing_dirs /\ ~Called.content.json) =>
        /\ log'[Len(log')].err = "none"
        /\ log'[Len(log')].ret = 0
        /\ experiment_type' = experiment_type
        /\ stats' = stats
        /\ nConstructed' = nConstructed
        /\ status' = "running"
        /\ error' = "none"

C4_Inv ==
    parsing_dirs =>
    \A i \in 1..Len(log) :
    /\ ~LogEntry(i).content.json =>
         /\ \A j \in (i + 1)..Len(log) :
              ValidResultFile(log[j].content) =>
                  (log[j].err = "none" /\ log[j].ret = stats.id /\ Merged(j))
         /\ status = "done" =>
              \A q \in Positions :
                  (Before(LogPos(i), q) /\ Eligible(q)) => TimesParsed(q) = 1
    /\ \A q \in Positions :
        ( /\ ~LogEntry(i).content.json
          /\ Before(LogPos(i), q) /\ Eligible(q)
          /\ \A r \in Positions : ~(Before(LogPos(i), r) /\ Before(r, q) /\ Eligible(r)) )
        => IF i < Len(log)
           THEN /\ LogPos(i + 1) = q
                /\ ValidResultFile(log[i + 1].content)
                     => (log[i + 1].err = "none" /\ log[i + 1].ret = stats.id /\ Merged(i + 1))
           ELSE status = "running" /\ ~Before(q, <<di, ei>>)

\* C4: a file that is not JSON is skipped without effect and the files after
\* it are still parsed and merged
C4_InvalidJsonSkipped == []C4_Inv /\ [][C4_Step]_vars

C4_Witness ==
    /\ parsing_dirs
    /\ \E i \in 1..(Len(log) - 1) :
         /\ ~LogEntry(i).content.json
         /\ ValidResultFile(LogEntry(i + 1).content)
         /\ log[i + 1].ret = 1
         /\ Merged(i + 1)

(***************************************************************************)
(* C5.  Whenever extract_parameters returns, for any experiment type, the  *)
(* mapping it returns has no key whose value is None: the keys that were   *)
(* None in the raw mapping are not in it and the renames add none.         *)
(* As stated, the second part is violated: a raw mapping that holds an     *)
(* output name with the value None (say const_alg) gets that key           *)
(* rewritten by the rename, and the key is in the output.                  *)
(***************************************************************************)
C5_NullKeysAbsent ==
    (np_out.called /\ np_out.err = "none") =>
        /\ \A k \in DOMAIN np_out.params : np_out.params[k] # None
        /\ \A k \in DOMAIN np_in : np_in[k] = None => k \notin DOMAIN np_out.params

\* the value a rename or the fprob derivation writes under the output name k
\* is the value in the output
Rewritten(k) ==
    /\ k \in OutputNames
    /\ k \in DOMAIN np_out.params
    /\ CASE k = "const_alg" ->
              "heuristic" \in DOMAIN np_in /\ np_out.params[k] = np_in["heuristic"]
         [] k = "exp_type" ->
              "experiment_type" \in DOMAIN np_in
                  /\ np_out.params[k] = np_in["experiment_type"]
         [] k = "select_policy" ->
              "tree_choosing_heuristic" \in DOMAIN np_in
                  /\ np_out.params[k] = np_in["tree_choosing_heuristic"]
         [] OTHER ->
              np_out.params[k].t = "float" /\ GoodFailureModel(np_in)

\* C5, amended: whenever extract_parameters returns, the mapping has no key
\* whose value is None, and every key that was None in the raw mapping is
\* absent from it unless it is an output name (const_alg, exp_type, fprob,
\* select_policy) that a rename or the fprob derivation wrote anew, with a
\* value that is not None
C5_NoNullValues ==
    (np_out.called /\ np_out.err = "none") =>
        /\ \A k \in DOMAIN np_out.params : np_out.params[k] # None
        /\ \A k \in DOMAIN np_in :
             np_in[k] = None => (k \notin DOMAIN np_out.params \/ Rewritten(k))

C5_Witness ==
    /\ np_out.called /\ np_out.err = "none"
    /\ "seed" \in DOMAIN np_in /\ np_in["seed"] = None
    /\ "seed" \notin DOMAIN np_out.params
    /\ "const_alg" \in DOMAIN np_in /\ np_in["const_alg"] = None
    /\ "const_alg" \in DOMAIN np_out.params
    /\ "select_policy" \in DOMAIN np_in
    /\ "select_policy" \in DOMAIN np_out.params

(***************************************************************************)
(* C6.  A result file whose params have experiment_type networkx, or no    *)
(* experiment_type at all, makes the run fail with NotImplementedError,    *)
(* and the extractor is not entered for it.                                *)
(* Violated: without the key, exp_params.pop("experiment_type") raises     *)
(* KeyError first.                                                         *)
(***************************************************************************)
C6_NetworkxNotSupported ==
    \A i \in 1..Len(log) :
        LET c == LogEntry(i).content
        IN  ( /\ LogEntry(i).kind = "file" /\ IsDocument(c)
              /\ WellFormedCommon(c.params)
              /\ \/ RawTypeIs(c.params, "networkx")
                 \/ "experiment_type" \notin DOMAIN c.params )
            => (log[i].err = "NotImplementedError" /\ ~log[i].extracted)

(***************************************************************************)
(* C7.  A file with an experiment_type other than mininet and networkx,    *)
(* its params otherwise well formed, ends the run with SystemExit before   *)
(* any extraction: extract_stats_from_results is not entered for it and    *)
(* the aggregate is neither constructed nor merged into.                   *)
(***************************************************************************)
UnrecognizedType(c) ==
    /\ IsDocument(c)
    /\ WellFormedCommon(c.params)
    /\ "experiment_type" \in DOMAIN c.params
    /\ ~RawTypeIs(c.params, "mininet")
    /\ ~RawTypeIs(c.params, "networkx")

C7_Inv ==
    \A i \in 1..Len(log) :
        (LogEntry(i).kind = "file" /\ UnrecognizedType(LogEntry(i).content)) =>
            /\ log[i].err = "SystemExit"
            /\ ~log[i].extracted
            /\ log[i].normalized
            /\ i = Len(log)
            /\ status = "aborted" /\ error = "SystemExit"

C7_Step ==
    (ParseFileStep /\ Called.kind = "file" /\ UnrecognizedType(Called.content)) =>
        (stats' = stats /\ nConstructed' = nConstructed)

\* C7: an unrecognized experiment type exits before any extraction
C7_UnrecognizedTypeExits == []C7_Inv /\ [][C7_Step]_vars

C7_Witness ==
    /\ status = "aborted" /\ error = "SystemExit"
    /\ Len(log) >= 2
    /\ UnrecognizedType(LogEntry(Len(log)).content)
    /\ stats # NoStats

(***************************************************************************)
(* C8.  In directory mode an entry whose name ends with .progress or that  *)
(* is not a regular file is never passed to parse_file; every other entry  *)
(* that parse_dir has gone over is passed exactly once, so when parse_all  *)
(* returns each of them has been passed exactly once.                      *)
(***************************************************************************)
C8_DirectoryFilter ==
    parsing_dirs =>
        \A q \in Positions :
            TimesParsed(q) =
                IF /\ Eligible(q)
                   /\ \/ status = "done"
                      \/ Before(q, <<di, ei>>)
                      \/ (q = <<di, ei>> /\ status = "aborted")
                THEN 1 ELSE 0

C8_Witness ==
    /\ parsing_dirs /\ status = "done"
    /\ Len(dirs) = 1 /\ Len(dirs[1].entries) = 2
    /\ \E e \in 1..2 : dirs[1].entries[e].name = <<"partial", ".progress">>
    /\ \E e \in 1..2 : Eligible(<<1, e>>) /\ LogPos(1) = <<1, e>>
    /\ Len(log) = 1
    /\ ValidResultFile(log[1].content)
    /\ stats # NoStats

(***************************************************************************)
(* C9.  A fatal condition while normalizing or extracting a file (a        *)
(* failure_model without "/" or with a non numeric probability, a topo     *)
(* that does not reduce to a string, the networkx type, an unrecognized    *)
(* type) leaves parse_all and ends the run at once: the file is never      *)
(* skipped instead, and no later file is opened, normalized or merged.     *)
(***************************************************************************)
FatalDocument(c) ==
    /\ IsDocument(c)
    /\ \/ ~GoodFailureModel(c.params)
       \/ ~GoodTopo(c.params)
       \/ "experiment_type" \notin DOMAIN c.params
       \/ ~RawTypeIs(c.params, "mininet")

C9_Inv ==
    \A i \in 1..Len(log) :
        /\ (LogEntry(i).kind = "file" /\ FatalDocument(LogEntry(i).content)) =>
              (log[i].err \in Errors /\ log[i].ret = 0)
        /\ log[i].err # "none" =>
              /\ i = Len(log)
              /\ status = "aborted"
              /\ error = log[i].err
              /\ \A q \in Positions : Before(LogPos(i), q) => TimesParsed(q) = 0
              /\ \A d \in (log[i].d + 1)..Len(dirs) : ~dirs[d].listed

C9_Step ==
    /\ status = "aborted" => UNCHANGED vars
    /\ (ParseFileStep /\ log'[Len(log')].err # "none" /\ ~log'[Len(log')].extracted)
          => stats' = stats

\* C9: a fatal condition in a file ends the run, is never a skip, and no
\* later file is opened
C9_FatalAborts == []C9_Inv /\ [][C9_Step]_vars

C9_Witness ==
    /\ status = "aborted" /\ error = "ValueError"
    /\ stats # NoStats
    /\ parsing_dirs
    /\ \E q \in Positions : Before(LogPos(Len(log)), q) /\ Eligible(q)

(***************************************************************************)
(* C10.  Whenever the aggregate is constructed or merged into,             *)
(* self.experiment_type is mininet: every file whose results are in the    *)
(* aggregate is a mininet file, and a file of another type ends the run    *)
(* instead of being merged.                                                *)
(***************************************************************************)
C10_Inv ==
    /\ \A c \in 1..Len(stats.calls) :
         /\ "exp_type" \in DOMAIN stats.calls[c].params
         /\ stats.calls[c].params["exp_type"] = Mininet
    /\ \A i \in 1..Len(log) :
         /\ log[i].ret # 0 => RawTypeIs(LogEntry(i).content.params, "mininet")
         /\ ( /\ LogEntry(i).kind = "file" /\ IsDocument(LogEntry(i).content)
              /\ ~RawTypeIs(LogEntry(i).content.params, "mininet") )
              => (log[i].err # "none" /\ status = "aborted" /\ i = Len(log))

C10_Step == stats' # stats => experiment_type' = Mininet

\* C10: the aggregate is built and merged into under type mininet only
C10_OnlyMininetMerged == []C10_Inv /\ [][C10_Step]_vars

C10_Witness ==
    /\ status = "aborted"
    /\ Len(stats.calls) >= 1
    /\ IsDocument(LogEntry(Len(log)).content)
    /\ RawTypeIs(LogEntry(Len(log)).content.params, "networkx")

====
